---- MODULE Spec2Model ----
(***************************************************************************)
(* PathHunter: the scanning engine (scanner.py, class DirScanner) and the  *)
(* control surface that owns the process-wide current_scan (app.py).       *)
(*                                                                         *)
(* Strings are sequences of tokens.  A token is one character ("/", " ",   *)
(* "#", ".", "?") or an atom standing for a run of ordinary characters     *)
(* ("http:", "h" for the host example.test, "e" for evil.test, "a", "b",   *)
(* "index", "html", "php").  None is a record with present = FALSE.        *)
(* A ScanResult keeps url, status and redirect; its size and timestamp     *)
(* take no part in any decision of the code and are left out.              *)
(*                                                                         *)
(* Threads: the start_scan request handler (one request at a time), the    *)
(* stop_scan handler (one atomic step, concurrent with everything else),   *)
(* one run_scan thread per job (the producer of DirScanner.scan) and the   *)
(* worker threads of each job.  scan_status and get_results only read and  *)
(* are operators on the state.  save_report is called by download_report  *)
(* or by the command line and takes two steps, the header and the body.    *)
(* print_progress only reads and prints and is left out, as are the        *)
(* temporary wordlist files of app.py.                                     *)
(* Variables named "history" record what has happened; no guard and no     *)
(* program variable depends on them.                                       *)
(***************************************************************************)
EXTENDS Integers, Sequences, FiniteSets, TLC

\* ------------------------------------------------------------------ bounds
MaxJobs == 2        \* submissions accepted in one run of the model
MaxThreads == 2     \* largest worker count a submission asks for

Jobs == 1..MaxJobs
Workers == 1..MaxThreads

\* ----------------------------------------------------------------- strings
Range(s) == {s[i] : i \in 1..Len(s)}

RECURSIVE LStripCh(_, _)
LStripCh(s, c) == IF s # <<>> /\ s[1] = c THEN LStripCh(Tail(s), c) ELSE s

RECURSIVE RStripCh(_, _)
RStripCh(s, c) ==
    IF s # <<>> /\ s[Len(s)] = c THEN RStripCh(SubSeq(s, 1, Len(s) - 1), c) ELSE s

\* str.strip(): leading and trailing whitespace removed
Strip(s) == RStripCh(LStripCh(s, " "), " ")

StartsWith(s, c) == s # <<>> /\ s[1] = c

\* None, and a present string value
None == [present |-> FALSE, value |-> <<>>]
Some(s) == [present |-> TRUE, value |-> s]
\* Python truthiness of an optional string: None and "" are falsy
Truthy(x) == x.present /\ x.value # <<>>

\* ----------------------------------------------------------- urlparse
\* index of the first token of s at or after position i that is in stops,
\* Len(s) + 1 when there is none
RECURSIVE FirstOf(_, _, _)
FirstOf(s, i, stops) ==
    IF i > Len(s) THEN Len(s) + 1
    ELSE IF s[i] \in stops THEN i
    ELSE FirstOf(s, i + 1, stops)

\* urllib.parse.urlparse: [scheme:][//netloc][path][?query][#fragment]
UrlParse(s) ==
    LET hasScheme == s # <<>> /\ s[1] = "http:"
        rest == IF hasScheme THEN Tail(s) ELSE s
        hasNetloc == Len(rest) >= 2 /\ rest[1] = "/" /\ rest[2] = "/"
        netEnd == IF hasNetloc THEN FirstOf(rest, 3, {"/", "?", "#"}) ELSE 1
        netloc == IF hasNetloc THEN SubSeq(rest, 3, netEnd - 1) ELSE <<>>
        after == IF hasNetloc THEN SubSeq(rest, netEnd, Len(rest)) ELSE rest
        pathEnd == FirstOf(after, 1, {"?", "#"})
    IN  [scheme |-> IF hasScheme THEN <<"http:">> ELSE <<>>,
         netloc |-> netloc,
         path |-> SubSeq(after, 1, pathEnd - 1)]

\* ------------------------------------------------------ wordlist sources
\* The wordlist sources a submission can name: their lines, or unreadable.
\*   w1: "a"          w2: " b ", "#c", "", "a"
\*   w3: "a", " a", "#", " #c", " "  (one path, twice)
\*   w4: "/a", "//a", "a.php", "a"
\*   bad: cannot be opened
WordlistNames == {"w1", "w2", "w3", "w4", "bad"}
FileReadable(f) == f \in {"w1", "w2", "w3", "w4"}
FileLines(f) ==
    IF f = "w1" THEN << <<"a">> >>
    ELSE IF f = "w2" THEN << <<" ", "b", " ">>, <<"#", "c">>, <<>>, <<"a">> >>
    ELSE IF f = "w3" THEN << <<"a">>, <<" ", "a">>, <<"#">>, <<" ", "#", "c">>, <<" ">> >>
    ELSE IF f = "w4" THEN << <<"/", "a">>, <<"/", "/", "a">>, <<"a", ".", "php">>, <<"a">> >>
    ELSE << >>

\* the lines of one source that load_wordlists keeps, in file order
RECURSIVE KeptLines(_)
KeptLines(lines) ==
    IF lines = <<>> THEN <<>>
    ELSE LET path == Strip(Head(lines))
         IN  (IF path # <<>> /\ ~StartsWith(path, "#") THEN <<path>> ELSE <<>>)
             \o KeptLines(Tail(lines))

\* the list paths before the duplicates are removed
RECURSIVE LoadedPaths(_)
LoadedPaths(wordlists) ==
    IF wordlists = <<>> THEN <<>>
    ELSE (IF FileReadable(Head(wordlists)) THEN KeptLines(FileLines(Head(wordlists)))
          ELSE <<>>)
         \o LoadedPaths(Tail(wordlists))

\* every order list(set(paths)) can return
Orderings(S) ==
    {o \in [1..Cardinality(S) -> S] : \A i, k \in 1..Cardinality(S) : o[i] = o[k] => i = k}

\* variant: the duplicates are kept
LoadWordlists_KeepDuplicates(wordlists) == {LoadedPaths(wordlists)}

\* DirScanner.load_wordlists: the possible results
LoadWordlists(wordlists) == Orderings(Range(LoadedPaths(wordlists)))

\* ------------------------------------------------------------ URL space
\* DirScanner.generate_urls
GenerateUrls(target, paths, extensions) ==
    LET E == Len(extensions)
        norm(p) == IF ~StartsWith(p, "/") THEN <<"/">> \o p ELSE p
    IN  [k \in 1..(Len(paths) * E) |->
            target \o norm(paths[((k - 1) \div E) + 1]) \o extensions[((k - 1) % E) + 1]]

\* start_scan, lines 111-114: the extension list from the comma-separated items
ExtList(items) ==
    << <<>> >> \o [i \in 1..Len(items) |-> <<".">> \o LStripCh(Strip(items[i]), ".")]

\* -------------------------------------------------------- classification
RedirectFamily == {301, 302, 303, 307, 308}
ExistsCodes == {200, 201, 204, 401, 403, 405, 500, 503}
RootPaths == { <<"/">>, <<>>, <<"/", "index", ".", "html">>, <<"/", "index", ".", "php">> }

\* variant: the Location header is taken whatever the status
RedirectLocation_AnyStatus(status, location) == location

\* test_url, lines 85-88
RedirectLocation(status, location) ==
    IF status \in RedirectFamily /\ location.present THEN location ELSE None

\* variant: only the redirect to another host is dropped
FilteredOut_DomainOnly(url, redirect_location) ==
    /\ Truthy(redirect_location)
    /\ LET original_domain == UrlParse(url).netloc
           redirect_domain == UrlParse(redirect_location.value).netloc
       IN  redirect_domain # <<>> /\ redirect_domain # original_domain

\* test_url, lines 92-105: TRUE when the response is dropped as a wildcard redirect
FilteredOut(url, redirect_location) ==
    /\ Truthy(redirect_location)
    /\ LET original_domain == UrlParse(url).netloc
           redirect_domain == UrlParse(redirect_location.value).netloc
           redirect_path == UrlParse(redirect_location.value).path
       IN  \/ (redirect_domain # <<>> /\ redirect_domain # original_domain)
           \/ redirect_path \in RootPaths

\* variant: every status of the redirect family gets the 301/302 treatment
Recorded_AnyRedirect(url, status, location) ==
    LET redirect_location == RedirectLocation(status, location)
    IN  /\ ~FilteredOut(url, redirect_location)
        /\ \/ status \in ExistsCodes
           \/ /\ status \in RedirectFamily
              /\ Truthy(redirect_location)
              /\ UrlParse(redirect_location.value).path # UrlParse(url).path

\* test_url, lines 107-139: TRUE when a ScanResult is appended for the response
Recorded(url, status, location) ==
    LET redirect_location == RedirectLocation(status, location)
    IN  /\ ~FilteredOut(url, redirect_location)
        /\ \/ status \in ExistsCodes
           \/ /\ status \in {301, 302}
              /\ Truthy(redirect_location)
              /\ UrlParse(redirect_location.value).path # UrlParse(url).path

\* the ScanResult test_url builds
MakeResult(url, status, location) ==
    [url |-> url, status |-> status, redirect |-> RedirectLocation(status, location)]

\* ------------------------------------------------------------------ state
VARIABLES
    cs,          \* app.py current_scan: [job, running, stop_requested, scanner, results]
                 \*   job: the submission that installed this dict (0: the module-load dict)
                 \*   scanner: 0 is None, j the DirScanner of job j
                 \*   results: 0 the list created with the dict, j the list object scanner j owns
    nextJob,     \* number of scan states installed so far
    hpc,         \* the start_scan request handler: where it is
    hreq,        \* the start_scan request handler: the request it serves
    stopResp,    \* the answer of the last stop_scan request: "none", "ok", "fail"
    job,         \* DirScanner j: [target, wordlists, threads, extensions]
    created,     \* DirScanner j has been constructed
    paths,       \* scan() local paths of job j, what load_wordlists returned
    urls,        \* scan() local urls of job j
    total,       \* DirScanner.total
    scanned,     \* DirScanner.scanned
    results,     \* DirScanner.results
    queue,       \* DirScanner.queue: entry i stands for urls[j][i], 0 for the None sentinel
    unfinished,  \* Queue.unfinished_tasks, what Queue.join() waits on
    lock,        \* DirScanner.lock: 0 free, w held by worker w
    report,      \* the file save_report of DirScanner j wrote last, and its answer
    ppc,         \* the run_scan thread of job j: where it is
    added,       \* scan() local added
    wpc,         \* worker w of job j: where it is
    wurl,        \* worker local url (its queue entry), 0 when it holds none
    wresp,       \* test_url local response: [kind, status, location]
    winc,        \* history: increments of scanned made by the current test_url call
    wapp,        \* history: results appended by the current test_url call
    deq,         \* history: how often entry i of job j was dequeued
    probed,      \* history: how often test_url was called for entry i of job j
    sawStop,     \* history: worker w of job j has evaluated stop_flag() to True
    cancelled    \* history: stop was requested for job j while it was the current scan

vars == <<cs, nextJob, hpc, hreq, stopResp, job, created, paths, urls, total, scanned,
          results, queue, unfinished, lock, report, ppc, added, wpc, wurl, wresp, winc,
          wapp, deq, probed, sawStop, cancelled>>

appVars == <<cs, nextJob, hpc, hreq, stopResp>>
scannerVars == <<job, created, paths, urls, total, scanned, results, queue, unfinished, lock,
                 report>>
producerVars == <<ppc, added>>
workerVars == <<wpc, wurl, wresp, winc, wapp>>
historyVars == <<deq, probed, sawStop, cancelled>>

NoResp == [kind |-> "none", status |-> 0, location |-> None]
Failure == [kind |-> "fail", status |-> 0, location |-> None]
Response(status, location) == [kind |-> "ok", status |-> status, location |-> location]

\* the report of a scanner: state "none" (save_report not called yet), "open"
\* (the header is written, the body not yet), "ok" (returned True), "failed"
\* (returned False); header, entries and noResults are what the file holds;
\* ioError is history: opening or writing the file raised
NoHeader == [target |-> <<>>, total |-> 0, found |-> 0]
NoReport == [state |-> "none", header |-> NoHeader, entries |-> <<>>, noResults |-> FALSE,
             ioError |-> FALSE]

NoJob == [target |-> <<>>, wordlists |-> <<>>, threads |-> 0, extensions |-> <<>>]
NoReq == [target |-> <<>>, wordlists |-> <<>>, threads |-> 0, extensions |-> <<>>]

\* app.py lines 31-38 and the state no scanner has touched yet
Init ==
    /\ cs = [job |-> 0, running |-> FALSE, stop_requested |-> FALSE, scanner |-> 0,
             results |-> 0]
    /\ nextJob = 0
    /\ hpc = "idle"
    /\ hreq = NoReq
    /\ stopResp = "none"
    /\ job = [j \in Jobs |-> NoJob]
    /\ created = [j \in Jobs |-> FALSE]
    /\ paths = [j \in Jobs |-> <<>>]
    /\ urls = [j \in Jobs |-> <<>>]
    /\ total = [j \in Jobs |-> 0]
    /\ scanned = [j \in Jobs |-> 0]
    /\ results = [j \in Jobs |-> <<>>]
    /\ queue = [j \in Jobs |-> <<>>]
    /\ unfinished = [j \in Jobs |-> 0]
    /\ lock = [j \in Jobs |-> 0]
    /\ report = [j \in Jobs |-> NoReport]
    /\ ppc = [j \in Jobs |-> "none"]
    /\ added = [j \in Jobs |-> 0]
    /\ wpc = [j \in Jobs |-> [w \in Workers |-> "none"]]
    /\ wurl = [j \in Jobs |-> [w \in Workers |-> 0]]
    /\ wresp = [j \in Jobs |-> [w \in Workers |-> NoResp]]
    /\ winc = [j \in Jobs |-> [w \in Workers |-> 0]]
    /\ wapp = [j \in Jobs |-> [w \in Workers |-> 0]]
    /\ deq = [j \in Jobs |-> <<>>]
    /\ probed = [j \in Jobs |-> <<>>]
    /\ sawStop = [j \in Jobs |-> [w \in Workers |-> FALSE]]
    /\ cancelled = [j \in Jobs |-> FALSE]

\* app.py line 165: every scanner's stop_flag reads the global current_scan when called
StopFlag == cs.stop_requested

\* the history of a stop request: it is for the job whose state is current
MarkCancelled == IF cs.job \in Jobs THEN [cancelled EXCEPT ![cs.job] = TRUE] ELSE cancelled

\* ------------------------------------------------- start_scan (app.py 83-192)
\* variant: the wordlist list is not checked
ValidRequest_TargetOnly(req) == Strip(req.target) # <<>>

\* lines 99-109: the request passes validation
ValidRequest(req) == Strip(req.target) # <<>> /\ req.wordlists # <<>>

\* lines 88-96: a running scan is told to stop and marked not running; then the
\* handler sleeps 0.2 s.  limit bounds the submissions the model accepts.
StartScanBegin(req, limit) ==
    /\ hpc = "idle"
    /\ ValidRequest(req) => nextJob < limit
    /\ hreq' = req
    /\ IF cs.running
       THEN /\ cs' = [cs EXCEPT !.stop_requested = TRUE, !.running = FALSE]
            /\ cancelled' = MarkCancelled
            /\ hpc' = "sleep"
       ELSE /\ UNCHANGED <<cs, cancelled>>
            /\ hpc' = "validate"
    /\ UNCHANGED <<nextJob, stopResp, scannerVars, producerVars, workerVars,
                   deq, probed, sawStop>>

\* line 96: time.sleep(0.2) returns
StartScanWake ==
    /\ hpc = "sleep"
    /\ hpc' = "validate"
    /\ UNCHANGED <<cs, nextJob, hreq, stopResp, scannerVars, producerVars, workerVars,
                   historyVars>>

\* lines 98-131: validation; a rejected request returns its error here
StartScanValidate ==
    /\ hpc = "validate"
    /\ hpc' = IF ValidRequest(hreq) THEN "install" ELSE "rejected"
    /\ UNCHANGED <<cs, nextJob, hreq, stopResp, scannerVars, producerVars, workerVars,
                   historyVars>>

\* lines 133-143: the global current_scan is rebound to a new dict
StartScanInstall ==
    /\ hpc = "install"
    /\ nextJob' = nextJob + 1
    /\ cs' = [job |-> nextJob + 1, running |-> TRUE, stop_requested |-> FALSE,
              scanner |-> 0, results |-> 0]
    /\ hpc' = "create"
    /\ UNCHANGED <<hreq, stopResp, scannerVars, producerVars, workerVars, historyVars>>

\* lines 145-192: the DirScanner is constructed (scanner.py 16-31), stored in
\* current_scan, and the run_scan thread is started
StartScanCreate ==
    /\ hpc = "create"
    /\ LET j == nextJob
       IN  /\ job' = [job EXCEPT ![j] = [target |-> RStripCh(Strip(hreq.target), "/"),
                                         wordlists |-> hreq.wordlists,
                                         threads |-> hreq.threads,
                                         extensions |-> ExtList(hreq.extensions)]]
           /\ created' = [created EXCEPT ![j] = TRUE]
           /\ results' = [results EXCEPT ![j] = <<>>]
           /\ scanned' = [scanned EXCEPT ![j] = 0]
           /\ total' = [total EXCEPT ![j] = 0]
           /\ queue' = [queue EXCEPT ![j] = <<>>]
           /\ unfinished' = [unfinished EXCEPT ![j] = 0]
           /\ lock' = [lock EXCEPT ![j] = 0]
           /\ cs' = [cs EXCEPT !.scanner = j]
           /\ ppc' = [ppc EXCEPT ![j] = "start"]
    /\ hpc' = "ok"
    /\ UNCHANGED <<nextJob, hreq, stopResp, paths, report, urls, added, workerVars,
                   historyVars>>

\* the response of start_scan has been sent
StartScanReturn ==
    /\ hpc \in {"ok", "rejected"}
    /\ hpc' = "idle"
    /\ hreq' = NoReq
    /\ UNCHANGED <<cs, nextJob, stopResp, scannerVars, producerVars, workerVars,
                   historyVars>>

\* variant: the stop flag is set without looking at the running flag
StopScan_Unconditional ==
    /\ stopResp = "none"
    /\ cs' = [cs EXCEPT !.stop_requested = TRUE]
    /\ cancelled' = MarkCancelled
    /\ stopResp' = "ok"
    /\ UNCHANGED <<nextJob, hpc, hreq, scannerVars, producerVars, workerVars,
                   deq, probed, sawStop>>

\* -------------------------------------------------- stop_scan (app.py 217-226)
StopScan ==
    /\ stopResp = "none"
    /\ IF cs.running
       THEN /\ cs' = [cs EXCEPT !.stop_requested = TRUE]
            /\ cancelled' = MarkCancelled
            /\ stopResp' = "ok"
       ELSE /\ UNCHANGED <<cs, cancelled>>
            /\ stopResp' = "fail"
    /\ UNCHANGED <<nextJob, hpc, hreq, scannerVars, producerVars, workerVars,
                   deq, probed, sawStop>>

\* the response of stop_scan has been sent
StopScanReturn ==
    /\ stopResp # "none"
    /\ stopResp' = "none"
    /\ UNCHANGED <<cs, nextJob, hpc, hreq, scannerVars, producerVars, workerVars,
                   historyVars>>

\* ---------------------------------------- scan_status, get_results (app.py 194-243)
\* the list object current_scan['results'] refers to
CsResults == IF cs.results = 0 THEN <<>> ELSE results[cs.results]

\* what scan_status answers in the current state
ScanStatus ==
    IF cs.scanner # 0
    THEN [running |-> cs.running, progress |-> scanned[cs.scanner],
          total |-> total[cs.scanner], results_count |-> Len(results[cs.scanner])]
    ELSE [running |-> cs.running, progress |-> 0, total |-> 0,
          results_count |-> Len(CsResults)]

\* what get_results answers in the current state
GetResults == IF cs.scanner # 0 THEN results[cs.scanner] ELSE CsResults

\* ------------------------------------- run_scan / DirScanner.scan (producer)
Sentinels(n) == [i \in 1..n |-> 0]

\* app.py 165, scanner.py 209-223: the wordlists are loaded, the URLs generated,
\* total set
ScanLoad(j) ==
    /\ ppc[j] = "start"
    /\ \E loaded \in LoadWordlists(job[j].wordlists) :
          /\ paths' = [paths EXCEPT ![j] = loaded]
          /\ urls' = [urls EXCEPT ![j] = GenerateUrls(job[j].target, loaded, job[j].extensions)]
    /\ total' = [total EXCEPT ![j] = Len(urls'[j])]
    /\ deq' = [deq EXCEPT ![j] = [i \in 1..Len(urls'[j]) |-> 0]]
    /\ probed' = [probed EXCEPT ![j] = [i \in 1..Len(urls'[j]) |-> 0]]
    /\ ppc' = [ppc EXCEPT ![j] = "spawn"]
    /\ UNCHANGED <<appVars, job, created, scanned, results, queue, unfinished, lock,
                   report, added, workerVars, sawStop, cancelled>>

\* scanner.py 225-236: the worker threads are started
ScanSpawn(j) ==
    /\ ppc[j] = "spawn"
    /\ wpc' = [wpc EXCEPT ![j] =
                  [w \in Workers |-> IF w <= job[j].threads THEN "head" ELSE "none"]]
    /\ ppc' = [ppc EXCEPT ![j] = "enq"]
    /\ UNCHANGED <<appVars, scannerVars, added, wurl, wresp, winc, wapp, historyVars>>

\* scanner.py 240-243: the head of the enqueue loop and its stop check
ScanEnqCheck(j) ==
    /\ ppc[j] = "enq"
    /\ ppc' = [ppc EXCEPT ![j] =
                  IF added[j] = Len(urls[j]) \/ StopFlag THEN "after" ELSE "put"]
    /\ UNCHANGED <<appVars, scannerVars, added, workerVars, historyVars>>

\* scanner.py 244-245: queue.put(url); added += 1
ScanPut(j) ==
    /\ ppc[j] = "put"
    /\ queue' = [queue EXCEPT ![j] = Append(@, added[j] + 1)]
    /\ unfinished' = [unfinished EXCEPT ![j] = @ + 1]
    /\ added' = [added EXCEPT ![j] = @ + 1]
    /\ ppc' = [ppc EXCEPT ![j] = "enq"]
    /\ UNCHANGED <<appVars, job, created, paths, report, urls, total, scanned, results, lock,
                   workerVars, historyVars>>

\* scanner.py 247-253: stopped, the sentinels are queued at once; otherwise the
\* producer goes on to queue.join()
ScanAfter(j) ==
    /\ ppc[j] = "after"
    /\ IF StopFlag
       THEN /\ queue' = [queue EXCEPT ![j] = @ \o Sentinels(job[j].threads)]
            /\ unfinished' = [unfinished EXCEPT ![j] = @ + job[j].threads]
            /\ ppc' = [ppc EXCEPT ![j] = "join"]
       ELSE /\ UNCHANGED <<queue, unfinished>>
            /\ ppc' = [ppc EXCEPT ![j] = "qjoin"]
    /\ UNCHANGED <<appVars, job, created, paths, report, urls, total, scanned, results, lock,
                   added, workerVars, historyVars>>

\* variant: the sentinels are queued without waiting for the queue to drain
ScanQueueJoined_NoWait(j) ==
    /\ ppc[j] = "qjoin"
    /\ queue' = [queue EXCEPT ![j] = @ \o Sentinels(job[j].threads)]
    /\ unfinished' = [unfinished EXCEPT ![j] = @ + job[j].threads]
    /\ ppc' = [ppc EXCEPT ![j] = "join"]
    /\ UNCHANGED <<appVars, job, created, paths, report, urls, total, scanned, results, lock,
                   added, workerVars, historyVars>>

\* scanner.py 254-262: queue.join() returns once every queued item is task_done;
\* then the sentinels are queued
ScanQueueJoined(j) ==
    /\ ppc[j] = "qjoin"
    /\ unfinished[j] = 0
    /\ queue' = [queue EXCEPT ![j] = @ \o Sentinels(job[j].threads)]
    /\ unfinished' = [unfinished EXCEPT ![j] = @ + job[j].threads]
    /\ ppc' = [ppc EXCEPT ![j] = "join"]
    /\ UNCHANGED <<appVars, job, created, paths, report, urls, total, scanned, results, lock,
                   added, workerVars, historyVars>>

\* scanner.py 264-279: each thread is joined for at most 0.5 s, scan() returns
ScanReturn(j) ==
    /\ ppc[j] = "join"
    /\ ppc' = [ppc EXCEPT ![j] = "fin"]
    /\ UNCHANGED <<appVars, scannerVars, added, workerVars, historyVars>>

\* app.py 168-176: the completion handler writes the global current_scan
RunScanFinish(j) ==
    /\ ppc[j] = "fin"
    /\ cs' = [cs EXCEPT !.results = j, !.running = FALSE]
    /\ ppc' = [ppc EXCEPT ![j] = "done"]
    /\ UNCHANGED <<nextJob, hpc, hreq, stopResp, scannerVars, added, workerVars,
                   historyVars>>

\* ------------------------------------------------ DirScanner.worker / test_url
SetW(f, j, w, v) == [f EXCEPT ![j][w] = v]

\* scanner.py 178: the loop condition
WorkerHead(j, w) ==
    /\ wpc[j][w] = "head"
    /\ IF StopFlag
       THEN /\ wpc' = SetW(wpc, j, w, "exit")
            /\ sawStop' = SetW(sawStop, j, w, TRUE)
       ELSE /\ wpc' = SetW(wpc, j, w, "get")
            /\ UNCHANGED sawStop
    /\ UNCHANGED <<appVars, scannerVars, producerVars, wurl, wresp, winc, wapp,
                   deq, probed, cancelled>>

\* scanner.py 180-183: queue.get returns an item; the sentinel ends the worker
WorkerGet(j, w) ==
    /\ wpc[j][w] = "get"
    /\ queue[j] # <<>>
    /\ queue' = [queue EXCEPT ![j] = Tail(@)]
    /\ IF Head(queue[j]) = 0
       THEN /\ unfinished' = [unfinished EXCEPT ![j] = @ - 1]
            /\ wpc' = SetW(wpc, j, w, "exit")
            /\ UNCHANGED <<wurl, deq>>
       ELSE /\ wurl' = SetW(wurl, j, w, Head(queue[j]))
            /\ deq' = [deq EXCEPT ![j][Head(queue[j])] = @ + 1]
            /\ wpc' = SetW(wpc, j, w, "got")
            /\ UNCHANGED unfinished
    /\ UNCHANGED <<appVars, job, created, paths, report, urls, total, scanned, results, lock,
                   producerVars, wresp, winc, wapp, probed, sawStop, cancelled>>

\* scanner.py 180, 190-194: queue.get times out on the empty queue
WorkerGetTimeout(j, w) ==
    /\ wpc[j][w] = "get"
    /\ queue[j] = <<>>
    /\ IF StopFlag
       THEN /\ wpc' = SetW(wpc, j, w, "exit")
            /\ sawStop' = SetW(sawStop, j, w, TRUE)
       ELSE /\ wpc' = SetW(wpc, j, w, "head")
            /\ UNCHANGED sawStop
    /\ UNCHANGED <<appVars, scannerVars, producerVars, wurl, wresp, winc, wapp,
                   deq, probed, cancelled>>

\* variant: the stop flag is looked at, and the URL probed all the same
WorkerCheck_ProbeAnyway(j, w) ==
    /\ wpc[j][w] = "got"
    /\ sawStop' = SetW(sawStop, j, w, sawStop[j][w] \/ StopFlag)
    /\ probed' = [probed EXCEPT ![j][wurl[j][w]] = @ + 1]
    /\ wpc' = SetW(wpc, j, w, "req")
    /\ UNCHANGED <<appVars, scannerVars, producerVars, wurl, wresp, winc, wapp,
                   deq, cancelled>>

\* scanner.py 185-187, 72-77: the stop check before the probe; the request is sent
WorkerCheck(j, w) ==
    /\ wpc[j][w] = "got"
    /\ IF ~StopFlag
       THEN /\ probed' = [probed EXCEPT ![j][wurl[j][w]] = @ + 1]
            /\ wpc' = SetW(wpc, j, w, "req")
            /\ UNCHANGED sawStop
       ELSE /\ sawStop' = SetW(sawStop, j, w, TRUE)
            /\ wpc' = SetW(wpc, j, w, "tdone")
            /\ UNCHANGED probed
    /\ UNCHANGED <<appVars, scannerVars, producerVars, wurl, wresp, winc, wapp,
                   deq, cancelled>>

\* scanner.py 72-77, 141-148: session.get returns r, or raises (r = Failure)
WorkerResponse(j, w, r) ==
    /\ wpc[j][w] = "req"
    /\ wresp' = SetW(wresp, j, w, r)
    /\ wpc' = SetW(wpc, j, w, IF r.kind = "ok" THEN "inc" ELSE "tdone")
    /\ UNCHANGED <<appVars, scannerVars, producerVars, wurl, winc, wapp, historyVars>>

\* variant: the lock is taken without waiting for it to be free
WorkerLock_NoWait(j, w) ==
    /\ wpc[j][w] \in {"inc", "app"}
    /\ lock' = [lock EXCEPT ![j] = w]
    /\ wpc' = SetW(wpc, j, w, IF wpc[j][w] = "inc" THEN "inc2" ELSE "app2")
    /\ UNCHANGED <<appVars, job, created, paths, report, urls, total, scanned, results, queue,
                   unfinished, producerVars, wurl, wresp, winc, wapp, historyVars>>

\* scanner.py 79, 118, 137: with self.lock
WorkerLock(j, w) ==
    /\ wpc[j][w] \in {"inc", "app"}
    /\ lock[j] = 0
    /\ lock' = [lock EXCEPT ![j] = w]
    /\ wpc' = SetW(wpc, j, w, IF wpc[j][w] = "inc" THEN "inc2" ELSE "app2")
    /\ UNCHANGED <<appVars, job, created, paths, report, urls, total, scanned, results, queue,
                   unfinished, producerVars, wurl, wresp, winc, wapp, historyVars>>

\* variant: the probe is counted twice
WorkerInc_Twice(j, w) ==
    /\ wpc[j][w] = "inc2"
    /\ scanned' = [scanned EXCEPT ![j] = @ + 2]
    /\ winc' = SetW(winc, j, w, winc[j][w] + 2)
    /\ lock' = [lock EXCEPT ![j] = 0]
    /\ wpc' = SetW(wpc, j, w,
                   IF Recorded(urls[j][wurl[j][w]], wresp[j][w].status, wresp[j][w].location)
                   THEN "app" ELSE "tdone")
    /\ UNCHANGED <<appVars, job, created, paths, report, urls, total, results, queue, unfinished,
                   producerVars, wurl, wresp, wapp, historyVars>>

\* scanner.py 80-139: scanned += 1, the lock is released, the response classified
WorkerInc(j, w) ==
    /\ wpc[j][w] = "inc2"
    /\ scanned' = [scanned EXCEPT ![j] = @ + 1]
    /\ winc' = SetW(winc, j, w, winc[j][w] + 1)
    /\ lock' = [lock EXCEPT ![j] = 0]
    /\ wpc' = SetW(wpc, j, w,
                   IF Recorded(urls[j][wurl[j][w]], wresp[j][w].status, wresp[j][w].location)
                   THEN "app" ELSE "tdone")
    /\ UNCHANGED <<appVars, job, created, paths, report, urls, total, results, queue, unfinished,
                   producerVars, wurl, wresp, wapp, historyVars>>

\* variant: the result is put at the head of the list
WorkerAppend_AtHead(j, w) ==
    /\ wpc[j][w] = "app2"
    /\ results' = [results EXCEPT ![j] =
                      <<MakeResult(urls[j][wurl[j][w]], wresp[j][w].status,
                                   wresp[j][w].location)>> \o @]
    /\ wapp' = SetW(wapp, j, w, wapp[j][w] + 1)
    /\ lock' = [lock EXCEPT ![j] = 0]
    /\ wpc' = SetW(wpc, j, w, "tdone")
    /\ UNCHANGED <<appVars, job, created, paths, report, urls, total, scanned, queue,
                   unfinished, producerVars, wurl, wresp, winc, historyVars>>

\* scanner.py 118-120, 137-139: the result is appended, the lock released
WorkerAppend(j, w) ==
    /\ wpc[j][w] = "app2"
    /\ results' = [results EXCEPT ![j] =
                      Append(@, MakeResult(urls[j][wurl[j][w]], wresp[j][w].status,
                                           wresp[j][w].location))]
    /\ wapp' = SetW(wapp, j, w, wapp[j][w] + 1)
    /\ lock' = [lock EXCEPT ![j] = 0]
    /\ wpc' = SetW(wpc, j, w, "tdone")
    /\ UNCHANGED <<appVars, job, created, paths, report, urls, total, scanned, queue, unfinished,
                   producerVars, wurl, wresp, winc, historyVars>>

\* scanner.py 189: queue.task_done(), back to the loop condition
WorkerTaskDone(j, w) ==
    /\ wpc[j][w] = "tdone"
    /\ unfinished' = [unfinished EXCEPT ![j] = @ - 1]
    /\ wurl' = SetW(wurl, j, w, 0)
    /\ wresp' = SetW(wresp, j, w, NoResp)
    /\ winc' = SetW(winc, j, w, 0)
    /\ wapp' = SetW(wapp, j, w, 0)
    /\ wpc' = SetW(wpc, j, w, "head")
    /\ UNCHANGED <<appVars, job, created, paths, report, urls, total, scanned, results, queue, lock,
                   producerVars, historyVars>>

\* ------------------------------------- DirScanner.save_report (scanner.py 281-313)
\* the order of Python's str comparison on the tokens of the model
TokenOrder ==
    <<" ", "#", ".", "/", "?", "a", "b", "c", "e", "h", "html", "http:", "index", "php">>
TokenRank(t) == CHOOSE i \in 1..Len(TokenOrder) : TokenOrder[i] = t

\* a < b on strings
RECURSIVE StrLess(_, _)
StrLess(a, b) ==
    IF b = <<>> THEN FALSE
    ELSE IF a = <<>> THEN TRUE
    ELSE IF a[1] = b[1] THEN StrLess(Tail(a), Tail(b))
    ELSE TokenRank(a[1]) < TokenRank(b[1])

\* line 297: the key (x['status'], x['url']) of x is less than that of y
KeyLess(x, y) == x.status < y.status \/ (x.status = y.status /\ StrLess(x.url, y.url))

\* x put into the sorted list t behind every entry whose key is not greater
Insert(t, x) ==
    LET at == FirstOf([i \in 1..Len(t) |-> IF KeyLess(x, t[i]) THEN "gt" ELSE "le"], 1, {"gt"})
    IN  SubSeq(t, 1, at - 1) \o <<x>> \o SubSeq(t, at, Len(t))

\* line 297: sorted(self.results, key=...), a stable sort into a new list
RECURSIVE SortedResults(_)
SortedResults(rs) ==
    IF rs = <<>> THEN <<>>
    ELSE Insert(SortedResults(SubSeq(rs, 1, Len(rs) - 1)), rs[Len(rs)])

\* the callers of save_report: download_report (app.py 245-261) for the current
\* scanner when it has results, and the command line (scanner.py 350-352) when
\* scan() has returned, where no stop is ever requested
SaveReportCalled(j) ==
    /\ created[j]
    /\ report[j].state # "open"
    /\ \/ cs.scanner = j /\ results[j] # <<>>
       \/ ppc[j] \in {"fin", "done"} /\ ~cancelled[j]

\* variant: an empty result list is refused
SaveReportOpen_RefuseEmpty(j, ok) ==
    /\ SaveReportCalled(j)
    /\ report' = [report EXCEPT ![j] =
                     IF ok /\ results[j] # <<>>
                     THEN [NoReport EXCEPT !.state = "open",
                                           !.header = [target |-> job[j].target,
                                                       total |-> total[j],
                                                       found |-> Len(results[j])]]
                     ELSE [report[j] EXCEPT !.state = "failed", !.ioError = ~ok]]
    /\ UNCHANGED <<appVars, job, created, paths, urls, total, scanned, results, queue,
                   unfinished, lock, producerVars, workerVars, historyVars>>

\* lines 283-291: the file is opened and truncated and the header written, or
\* open raises and save_report returns False
SaveReportOpen(j, ok) ==
    /\ SaveReportCalled(j)
    /\ report' = [report EXCEPT ![j] =
                     IF ok
                     THEN [NoReport EXCEPT !.state = "open",
                                           !.header = [target |-> job[j].target,
                                                       total |-> total[j],
                                                       found |-> Len(results[j])]]
                     ELSE [report[j] EXCEPT !.state = "failed", !.ioError = TRUE]]
    /\ UNCHANGED <<appVars, job, created, paths, urls, total, scanned, results, queue,
                   unfinished, lock, producerVars, workerVars, historyVars>>

\* variant: the results are written in the order of the list
SaveReportBody_Unsorted(j, ok) ==
    /\ report[j].state = "open"
    /\ report' = [report EXCEPT ![j] =
                     IF ok
                     THEN [@ EXCEPT !.state = "ok",
                                    !.noResults = (results[j] = <<>>),
                                    !.entries = results[j]]
                     ELSE [@ EXCEPT !.state = "failed", !.ioError = TRUE]]
    /\ UNCHANGED <<appVars, job, created, paths, urls, total, scanned, results, queue,
                   unfinished, lock, producerVars, workerVars, historyVars>>

\* lines 293-313: the no-results line or the sorted results are written and
\* save_report returns True, or a write raises and it returns False
SaveReportBody(j, ok) ==
    /\ report[j].state = "open"
    /\ report' = [report EXCEPT ![j] =
                     IF ok
                     THEN [@ EXCEPT !.state = "ok",
                                    !.noResults = (results[j] = <<>>),
                                    !.entries = SortedResults(results[j])]
                     ELSE [@ EXCEPT !.state = "failed", !.ioError = TRUE]]
    /\ UNCHANGED <<appVars, job, created, paths, urls, total, scanned, results, queue,
                   unfinished, lock, producerVars, workerVars, historyVars>>

\* ------------------------------------------------------------ the inputs
Target == <<"http:", "/", "/", "h">>          \* http://example.test
Req(t, wl, n, ext) == [target |-> t, wordlists |-> wl, threads |-> n, extensions |-> ext]

\* what a probe can come back with in the concurrent specifications
SmallResponses == {Failure, Response(200, None), Response(404, None)}

\* one worker and one URL per job; a request with an empty wordlist list
AppRequests ==
    { Req(Target \o <<"/">>, <<"w1">>, 1, <<>>),
      Req(Target, <<>>, 1, <<>>) }

\* one job, 1..MaxThreads workers, 0 to 2 URLs; a request with an empty wordlist
\* list
ScanRequests ==
    { Req(Target, wl, n, <<>>) : wl \in { <<"w2">>, <<"bad", "w1">>, <<"bad">> },
                                 n \in 1..MaxThreads }
    \cup { Req(Target, <<>>, 1, <<>>) }

\* the control surface: one job of one worker and one URL, and the two
\* requests validation rejects
CtlRequests ==
    { Req(Target, <<"w1">>, 1, <<>>),
      Req(Target, <<>>, 1, <<>>),
      Req(<<" ">>, <<"w1">>, 1, <<>>) }

\* wordlist loading: one worker; sources with duplicates within and across
\* them, comment and blank lines, unreadable sources, no readable source at all
LoadRequests ==
    { Req(Target, wl, 1, <<>>) : wl \in { <<"w1", "w2">>, <<"w3">>, <<"bad", "w3", "bad">>,
                                          <<"bad">>, <<"bad", "bad">> } }
    \cup { Req(Target, <<>>, 1, <<>>) }

\* URL generation: paths with no, one and two leading "/", a path that ends in
\* an extension, and no, one or two extensions asked for
GenRequests ==
    { Req(Target, wl, 1, ext) :
        wl \in { <<"w1">>, <<"w3">>, <<"w4">>, <<"w2", "w4">> },
        ext \in { <<>>, << <<"php">> >>, << <<".", "php">>, <<" ", "html">> >> } }
    \cup { Req(Target, <<>>, 1, <<>>) }

\* reports: one worker, the URLs /a and /b in either order, each recorded with
\* 200 or 403 or not at all
ReportRequests ==
    { Req(Target, <<"w2">>, 1, <<>>), Req(Target, <<>>, 1, <<>>) }
ReportResponses == {Response(200, None), Response(403, None), Response(404, None)}

\* one probe of http://example.test/a by one worker
ProbeRequests == { Req(Target, <<"w1">>, 1, <<>>), Req(Target, <<>>, 1, <<>>) }

\* Location header values: absent, "", "/", "/index.html", "/index.php",
\* "http://example.test/", "http://example.test/b", "http://evil.test/b",
\* "//evil.test/b", "/a" (the probed path), "/b", "b"
Locations ==
    { None, Some(<<>>), Some(<<"/">>), Some(<<"/", "index", ".", "html">>),
      Some(<<"/", "index", ".", "php">>),
      Some(Target \o <<"/">>), Some(Target \o <<"/", "b">>),
      Some(<<"http:", "/", "/", "e", "/", "b">>), Some(<<"/", "/", "e", "/", "b">>),
      Some(<<"/", "a">>), Some(<<"/", "b">>), Some(<<"b">>) }

Statuses == {200, 201, 204, 301, 302, 303, 307, 308, 401, 403, 404, 405, 500, 503}

AllResponses == {Failure} \cup {Response(st, loc) : st \in Statuses, loc \in Locations}

\* --------------------------------------------------------- specifications
HandlerStep ==
    \/ StartScanWake
    \/ StartScanValidate
    \/ StartScanInstall
    \/ StartScanCreate
    \/ StartScanReturn

ProducerStep(j) ==
    \/ ScanLoad(j)
    \/ ScanSpawn(j)
    \/ ScanEnqCheck(j)
    \/ ScanPut(j)
    \/ ScanAfter(j)
    \/ ScanQueueJoined(j)
    \/ ScanReturn(j)
    \/ RunScanFinish(j)

WorkerStep(j, w, resps) ==
    \/ WorkerHead(j, w)
    \/ WorkerGet(j, w)
    \/ WorkerGetTimeout(j, w)
    \/ WorkerCheck(j, w)
    \/ \E r \in resps : WorkerResponse(j, w, r)
    \/ WorkerLock(j, w)
    \/ WorkerInc(j, w)
    \/ WorkerAppend(j, w)
    \/ WorkerTaskDone(j, w)

Step(reqs, limit, resps) ==
    \/ \E req \in reqs : StartScanBegin(req, limit)
    \/ HandlerStep
    \/ StopScan
    \/ StopScanReturn
    \/ \E j \in Jobs : ProducerStep(j)
    \/ \E j \in Jobs : \E w \in Workers : WorkerStep(j, w, resps)

\* the application: submissions supersede one another
Next == Step(AppRequests, MaxJobs, SmallResponses)
Spec == Init /\ [][Next]_vars

\* one scan: a single accepted submission with up to MaxThreads workers
NextScan == Step(ScanRequests, 1, SmallResponses)
SpecScan == Init /\ [][NextScan]_vars

\* the control surface with the requests validation rejects
NextCtl == Step(CtlRequests, 1, SmallResponses)
SpecCtl == Init /\ [][NextCtl]_vars

\* one probe, every response it can come back with
NextProbe == Step(ProbeRequests, 1, AllResponses)
SpecProbe == Init /\ [][NextProbe]_vars

\* one scan by one worker, over the wordlist sources of LoadRequests
NextLoad == Step(LoadRequests, 1, SmallResponses)
SpecLoad == Init /\ [][NextLoad]_vars

\* load_wordlists and generate_urls on the inputs of GenRequests: a submission is
\* taken up to the point where scan() has set urls and total
NextGen ==
    \/ \E req \in GenRequests : StartScanBegin(req, 1)
    \/ HandlerStep
    \/ \E j \in Jobs : ScanLoad(j)
SpecGen == Init /\ [][NextGen]_vars

\* one scan and the reports written of it, while it runs and after it
SaveReportStep(j) ==
    \/ \E ok \in BOOLEAN : SaveReportOpen(j, ok)
    \/ \E ok \in BOOLEAN : SaveReportBody(j, ok)
NextReport ==
    \/ Step(ReportRequests, 1, ReportResponses)
    \/ \E j \in Jobs : SaveReportStep(j)
SpecReport == Init /\ [][NextReport]_vars

\* Scheduling: every started thread keeps being scheduled, a sent request comes
\* back (with a response or an exception) within its timeout, and a request
\* handler that has begun runs to its end.  Nothing obliges a client to submit
\* or to stop a scan.
Fairness(resps) ==
    /\ WF_vars(HandlerStep)
    /\ \A j \in Jobs : WF_vars(ProducerStep(j))
    /\ \A j \in Jobs : \A w \in Workers : WF_vars(WorkerStep(j, w, resps))

\* one scan of two URLs by 1..MaxThreads workers, under the scheduling assumptions
LiveRequests ==
    { Req(Target, <<"w2">>, n, <<>>) : n \in 1..MaxThreads } \cup { Req(Target, <<>>, 1, <<>>) }
LiveResponses == {Failure, Response(200, None)}
NextLive == Step(LiveRequests, 1, LiveResponses)
FairSpec == Init /\ [][NextLive]_vars /\ Fairness(LiveResponses)

\* ================================================================= claims
InTestUrl(j, w) == wpc[j][w] \in {"req", "inc", "inc2", "app", "app2"}
\* worker w of job j has come back from test_url and not yet called task_done
ProbeReturned(j, w) == wpc[j][w] = "tdone" /\ wresp[j][w].kind # "none"
\* scan() of job j has been entered and has not returned
ScanRunning(j) == ppc[j] \in {"spawn", "enq", "put", "after", "qjoin", "join"}
WorkersOf(j) == 1..job[j].threads
WorkersStarted(j) == \E w \in Workers : wpc[j][w] # "none"
WorkersExited(j) == WorkersStarted(j) /\ \A w \in WorkersOf(j) : wpc[j][w] = "exit"

\* C1: whenever a worker has probed a dequeued ProbeURL, the probe has incremented
\* scanned exactly once, whether it ended in a response or in a transport failure.
C1_ScannedOncePerProbe ==
    \A j \in Jobs : \A w \in Workers : ProbeReturned(j, w) => winc[j][w] = 1

\* C2: once stop is requested while scan() runs, scan() returns and the running
\* flag becomes false, however many ProbeURLs are still queued.
C2_StopEndsScan ==
    \A j \in Jobs :
        (ScanRunning(j) /\ StopFlag /\ job[j].threads >= 1)
            ~> (ppc[j] = "done" /\ ~cs.running)

\* C3: if the stop flag becomes true and stays true, every worker of the job
\* leaves its loop, and no worker that has observed the flag true starts a probe.
C3_WorkersExitOnStop ==
    /\ (<>[]StopFlag) => <>(\A j \in Jobs : created[j] => WorkersExited(j))
    /\ [][\A j \in Jobs : \A w \in Workers :
            (wpc[j][w] = "got" /\ wpc'[j][w] = "req") => ~sawStop'[j][w]]_vars

\* C3, its case: a worker with a probe in flight when stop was requested has
\* finished the probe, observed the flag and left, as have all the others.
C3_Witness ==
    \E j \in Jobs : /\ StopFlag
                    /\ WorkersExited(j)
                    /\ scanned[j] >= 1
                    /\ \E w \in WorkersOf(j) : sawStop[j][w]
                    /\ queue[j] # <<>>

\* a worker of job j passes the stop check of line 186 and sends its request
ProbeStarts(j) == \E w \in Workers : wpc[j][w] = "got" /\ wpc'[j][w] = "req"
Probing(j) == \E w \in Workers : InTestUrl(j, w)

\* C4: every queued ProbeURL is dequeued at most once and probed at most once,
\* and once stop has been requested for a job none of its ProbeURLs is probed.
C4_AtMostOnceNoneAfterCancel ==
    /\ [](\A j \in Jobs : \A i \in DOMAIN deq[j] : deq[j][i] <= 1 /\ probed[j][i] <= 1)
    /\ [][\A j \in Jobs : cancelled[j] => ~ProbeStarts(j)]_vars

\* C5: scanned never exceeds total and never decreases; total does not change
\* once a worker has been started.
C5_ScannedBounded ==
    /\ [](\A j \in Jobs : scanned[j] <= total[j])
    /\ [][\A j \in Jobs : /\ scanned'[j] >= scanned[j]
                          /\ WorkersStarted(j) => total'[j] = total[j]]_vars

\* C5, its case: two workers have probed both URLs of a job, every probe counted.
C5_Witness ==
    \E j \in Jobs : /\ total[j] = 2
                    /\ scanned[j] = total[j]
                    /\ job[j].threads = 2
                    /\ \A w \in WorkersOf(j) : sawStop[j][w] = FALSE /\ wpc[j][w] = "exit"

\* C6: a new scan state is installed only when every worker of every earlier job
\* has exited, and no two jobs ever have a probe under way at the same time.
C6_OldJobGoneBeforeInstall ==
    /\ [][nextJob' # nextJob => \A j \in Jobs : created[j] => WorkersExited(j)]_vars
    /\ [](\A j1, j2 \in Jobs : j1 # j2 => ~(Probing(j1) /\ Probing(j2)))

\* C7: a job is installed with progress 0, no results and a false stop flag, and
\* what scan_status and get_results report while it is the current scan is its
\* own counter and its own result list, whatever an earlier job still does.
C7_FreshStatePerJob ==
    /\ [][nextJob' # nextJob =>
            /\ ~cs'.stop_requested
            /\ ScanStatus'.progress = 0
            /\ ScanStatus'.results_count = 0
            /\ GetResults' = <<>>]_vars
    /\ [](cs.job \in Jobs =>
            /\ GetResults = results[cs.job]
            /\ ScanStatus.progress = scanned[cs.job]
            /\ ScanStatus.results_count = Len(results[cs.job]))

\* a submission whose target is empty once trimmed, or that names no wordlist
InvalidSubmission(req) ==
    \/ \A i \in 1..Len(req.target) : req.target[i] = " "
    \/ Len(req.wordlists) = 0

\* a DirScanner, a scan thread or a first worker thread comes into being
SomethingCreated ==
    \/ nextJob' # nextJob
    \/ created' # created
    \/ \E j \in Jobs : ppc[j] = "none" /\ ppc'[j] # "none"
    \/ \E j \in Jobs : ~WorkersStarted(j) /\ WorkersStarted(j)' /\ ~created[j]

\* C8: a submission with an empty target or an empty wordlist list never gets
\* past validation, so it ends rejected, and while it is being handled no
\* DirScanner, scan thread or worker thread is created.
C8_InvalidSubmissionRejected ==
    /\ [](hpc \in {"install", "create", "ok"} => ~InvalidSubmission(hreq))
    /\ [][(hpc' # "idle" /\ InvalidSubmission(hreq')) => ~SomethingCreated]_vars

\* C8, its case: a blank target was rejected while an earlier job existed.
C8_Witness ==
    /\ hpc = "rejected"
    /\ hreq.target = <<" ">>
    /\ hreq.wordlists # <<>>
    /\ nextJob = 1

\* C9: stop_scan answers success exactly when the running flag is true and then
\* sets the stop flag; otherwise it answers failure and changes nothing.
C9_StopScanAnswer ==
    [][(stopResp = "none" /\ stopResp' # "none") =>
          /\ (stopResp' = "ok") <=> cs.running
          /\ (stopResp' = "fail") <=> ~cs.running
          /\ cs.running => cs' = [cs EXCEPT !.stop_requested = TRUE]
          /\ ~cs.running => cs' = cs
          /\ UNCHANGED <<nextJob, hpc, hreq, scannerVars, producerVars, workerVars>>]_vars

\* C9, its case: stop_scan was refused after the scan had ended, the stop flag
\* still false.
C9_Witness ==
    /\ stopResp = "fail"
    /\ cs.job = 1
    /\ ppc[1] = "done"
    /\ ~cs.running
    /\ ~cs.stop_requested

\* C10: a response whose status is one of 200, 201, 204, 401, 403, 405, 500, 503
\* has had exactly one ScanResult for the probed URL appended when test_url
\* returns, with or without a Location header.
C10_ExistsCodesRecorded ==
    \A j \in Jobs : \A w \in Workers :
        (/\ ProbeReturned(j, w)
         /\ wresp[j][w].kind = "ok"
         /\ wresp[j][w].status \in {200, 201, 204, 401, 403, 405, 500, 503})
        => /\ wapp[j][w] = 1
           /\ \E i \in DOMAIN results[j] :
                 /\ results[j][i].url = urls[j][wurl[j][w]]
                 /\ results[j][i].status = wresp[j][w].status

\* C10, its case: a 403 with Location "/" has been recorded.
C10_Witness ==
    \E j \in Jobs : \E w \in Workers :
        /\ ProbeReturned(j, w)
        /\ wresp[j][w].status = 403
        /\ wresp[j][w].location = Some(<<"/">>)
        /\ wapp[j][w] = 1
        /\ Len(results[j]) = 1

\* the Location header of the response worker w of job j holds, and the probed URL
LocationOf(j, w) == wresp[j][w].location
ProbedUrl(j, w) == urls[j][wurl[j][w]]

C12_OtherRedirectsNeverRecorded ==
    \A j \in Jobs : \A w \in Workers :
        (/\ ProbeReturned(j, w)
         /\ wresp[j][w].kind = "ok"
         /\ wresp[j][w].status \in {303, 307, 308})
        => (wapp[j][w] = 0 /\ results[j] = <<>>)

\* C12, its case: a 307 to /b on the probed host, which a 301 would have had
\* recorded, was counted and left no result.
C12_Witness ==
    \E j \in Jobs : \E w \in Workers :
        /\ ProbeReturned(j, w)
        /\ wresp[j][w].status = 307
        /\ LocationOf(j, w) = Some(Target \o <<"/", "b">>)
        /\ winc[j][w] = 1
        /\ wapp[j][w] = 0

\* scan() of job j has loaded its wordlists
Loaded(j) == ppc[j] \notin {"none", "start"}

\* x is line without its leading and trailing blanks
TrimOf(line, x) ==
    \E a, b \in 0..Len(line) :
        /\ a + b <= Len(line)
        /\ x = SubSeq(line, a + 1, Len(line) - b)
        /\ \A i \in 1..Len(line) : (i <= a \/ i > Len(line) - b) => line[i] = " "
        /\ x # <<>> => (x[1] # " " /\ x[Len(x)] # " ")

\* the trimmed lines of the readable sources of wordlists that are neither empty
\* nor comments
WantedPaths(wordlists) ==
    LET readable == {wordlists[k] : k \in {n \in 1..Len(wordlists) : FileReadable(wordlists[n])}}
        lines == UNION {Range(FileLines(f)) : f \in readable}
        trimmed == UNION {{SubSeq(l, a, b) : a \in 1..(Len(l) + 1), b \in 0..Len(l)} : l \in lines}
    IN  {x \in trimmed : /\ \E l \in lines : TrimOf(l, x)
                         /\ x # <<>>
                         /\ x[1] # "#"}

NoSourceReadable(j) == \A k \in 1..Len(job[j].wordlists) : ~FileReadable(job[j].wordlists[k])

\* C14: what load_wordlists returned has no duplicates and holds exactly the
\* trimmed lines of the readable sources that are neither empty nor comments; a
\* source that cannot be read is skipped; with no readable source the result is
\* empty, total is 0, no probe is made and scan() is never kept from going on
\* to its end.
C14_LoadWordlists ==
    \A j \in Jobs :
        Loaded(j) =>
            /\ \A i, k \in 1..Len(paths[j]) : paths[j][i] = paths[j][k] => i = k
            /\ Range(paths[j]) = WantedPaths(job[j].wordlists)
            /\ NoSourceReadable(j) =>
                  /\ paths[j] = <<>>
                  /\ total[j] = 0
                  /\ scanned[j] = 0
                  /\ ~Probing(j)
                  /\ ppc[j] # "done" => ENABLED ProducerStep(j)

\* C14, its cases: the source with one path on two lines, between two unreadable
\* sources, gave one URL, which was probed; and a scan none of whose sources
\* could be read has ended.
C14_Witness ==
    \E j \in Jobs :
        \/ /\ job[j].wordlists = <<"bad", "w3", "bad">>
           /\ paths[j] = << <<"a">> >>
           /\ scanned[j] = 1
        \/ /\ job[j].wordlists = <<"bad", "bad">>
           /\ ppc[j] = "done"
           /\ total[j] = 0

\* C13: for a non-empty list of unique paths, generate_urls yields as many
\* distinct URLs as there are (path, extension) pairs, and that number is total.
C13_DistinctUrlCount ==
    \A j \in Jobs :
        (Loaded(j) /\ paths[j] # <<>>) =>
            /\ Cardinality(Range(urls[j])) = Len(paths[j]) * Len(job[j].extensions)
            /\ total[j] = Cardinality(Range(urls[j]))

\* C20: the URL generated for a path and an extension is the target, the path
\* with exactly one leading "/", and the extension.
C20_OneLeadingSlash ==
    \A j \in Jobs :
        Loaded(j) =>
            LET E == Len(job[j].extensions)
            IN  /\ Len(urls[j]) = Len(paths[j]) * E
                /\ \A i \in 1..Len(paths[j]) : \A e \in 1..E :
                      urls[j][(i - 1) * E + e] =
                          job[j].target \o <<"/">> \o LStripCh(paths[j][i], "/")
                                       \o job[j].extensions[e]

\* save_report of scanner j writes the body of its file and returns True
BodyWritten(j) == report[j].state = "open" /\ report'[j].state = "ok"
\* save_report of scanner j is called, and it returns
SaveCalled(j) == report[j].state # "open" /\ report'[j] # report[j]
SaveReturns(j) == report'[j].state \in {"ok", "failed"} /\ report'[j] # report[j]

Occurrences(seq, x) == Cardinality({i \in 1..Len(seq) : seq[i] = x})

\* a <= b in lexical order
LexLeq(a, b) ==
    \/ a = b
    \/ \E n \in 0..Len(a) :
          /\ n <= Len(b)
          /\ SubSeq(a, 1, n) = SubSeq(b, 1, n)
          /\ \/ n = Len(a) /\ n < Len(b)
             \/ n < Len(a) /\ n < Len(b) /\ TokenRank(a[n + 1]) < TokenRank(b[n + 1])

\* C15: the entries save_report writes are the entries of the result list, each
\* as often as it is in the list, in ascending order of status and, for equal
\* status, of URL, whatever the order of the list.
C15_ReportSorted ==
    [][\A j \in Jobs :
          BodyWritten(j) =>
              LET entries == report'[j].entries
              IN  /\ Len(entries) = Len(results[j])
                  /\ \A x \in Range(results[j]) :
                        Occurrences(entries, x) = Occurrences(results[j], x)
                  /\ \A i, k \in 1..Len(entries) :
                        i < k => \/ entries[i].status < entries[k].status
                                 \/ /\ entries[i].status = entries[k].status
                                    /\ LexLeq(entries[i].url, entries[k].url)]_vars

\* C15, its case: a 403 was appended before a 200 and the report lists the 200
\* first.
C15_Witness ==
    \E j \in Jobs :
        /\ report[j].state = "ok"
        /\ Len(results[j]) = 2
        /\ results[j][1].status = 403
        /\ results[j][2].status = 200
        /\ report[j].entries = <<results[j][2], results[j][1]>>

\* C16: save_report called with an empty result list and no I/O error writes
\* the header and the no-results line and returns True; when it returns False
\* an I/O error has occurred and results, scanned and total are as before.
C16_EmptyAndFailedReport ==
    [][\A j \in Jobs :
          /\ (SaveCalled(j) /\ results[j] = <<>> /\ ~report'[j].ioError) =>
                /\ report'[j].state = "open"
                /\ report'[j].header =
                      [target |-> job[j].target, total |-> total[j], found |-> 0]
          /\ (SaveReturns(j) /\ report[j].state = "open" /\ report[j].header.found = 0
                /\ ~report'[j].ioError) =>
                /\ report'[j].state = "ok"
                /\ report'[j].noResults
                /\ report'[j].entries = <<>>
                /\ report'[j].header = report[j].header
          /\ (SaveReturns(j) /\ report'[j].state = "failed") =>
                /\ report'[j].ioError
                /\ results' = results /\ scanned' = scanned /\ total' = total]_vars

\* C16, its cases: a scan of two URLs that recorded nothing was reported with
\* the no-results line, and a later save_report failed.
C16_Witness ==
    \E j \in Jobs :
        /\ report[j].state = "failed"
        /\ report[j].ioError
        /\ report[j].noResults
        /\ report[j].header = [target |-> Target, total |-> 2, found |-> 0]
        /\ scanned[j] = 2

\* the workers of job j inside a "with self.lock" block
InLockedBlock(j) == {w \in Workers : wpc[j][w] \in {"inc2", "app2"}}

\* C17: scanned and results of a scanner change only in a step of the worker
\* that holds the scanner's lock; at most one worker is inside a locked block,
\* and it is the holder; a worker whose request is in flight does not hold the
\* lock.
C17_MutationsUnderLock ==
    /\ [](\A j \in Jobs :
            /\ Cardinality(InLockedBlock(j)) <= 1
            /\ \A w \in InLockedBlock(j) : lock[j] = w
            /\ \A w \in Workers : wpc[j][w] = "req" => lock[j] # w)
    /\ [][\A j \in Jobs :
            (scanned'[j] # scanned[j] \/ results'[j] # results[j]) =>
                /\ lock[j] \in Workers
                /\ wpc[j][lock[j]] \in {"inc2", "app2"}
                /\ wpc'[j][lock[j]] # wpc[j][lock[j]]
                /\ \A w \in Workers \ {lock[j]} : wpc'[j][w] = wpc[j][w]]_vars

\* C17, its case: one worker holds the lock to append its result, the other has
\* got its response and waits for the lock to count its probe.
C17_Witness ==
    \E j \in Jobs : \E w1, w2 \in Workers :
        /\ lock[j] = w1
        /\ wpc[j][w1] = "app2"
        /\ wpc[j][w2] = "inc"
        /\ scanned[j] = 1

\* the sentinels queued for job j and not yet taken, and the workers that have left
SentinelsQueued(j) == Cardinality({i \in 1..Len(queue[j]) : queue[j][i] = 0})
ExitedWorkers(j) == {w \in Workers : wpc[j][w] = "exit"}
\* the producer of job j has queued its sentinels
SentinelsPut(j) == ppc[j] \in {"join", "fin", "done"}

\* C18: in a scan for which stop has not been requested, no sentinel is queued
\* and no worker has left before the producer has queued every ProbeURL and every
\* ProbeURL has been taken and finished; from then on the sentinels still queued
\* and the workers that have left, none of them on the stop flag, add up to the
\* number of workers; and unless stop is requested every worker leaves.
C18_SentinelsAfterDrain ==
    /\ [](\A j \in Jobs :
            (WorkersStarted(j) /\ ~cancelled[j]) =>
                /\ \A w \in Workers : ~sawStop[j][w]
                /\ ~SentinelsPut(j) => (SentinelsQueued(j) = 0 /\ ExitedWorkers(j) = {})
                /\ SentinelsPut(j) =>
                      /\ added[j] = Len(urls[j])
                      /\ \A i \in 1..Len(urls[j]) : deq[j][i] = 1
                      /\ \A w \in Workers : wurl[j][w] = 0
                      /\ \A i \in 1..Len(queue[j]) : queue[j][i] = 0
                      /\ SentinelsQueued(j) + Cardinality(ExitedWorkers(j)) = job[j].threads)
    /\ (\E j \in Jobs : WorkersStarted(j))
          ~> (\A j \in Jobs : WorkersStarted(j) => (WorkersExited(j) \/ cancelled[j]))

\* C18, its case: two workers have finished both ProbeURLs, the producer has
\* queued two sentinels, one worker has taken its own and left, the other
\* sentinel is still queued; stop was never requested.
C18_Witness ==
    \E j \in Jobs :
        /\ ~cancelled[j]
        /\ job[j].threads = 2
        /\ Len(urls[j]) = 2
        /\ queue[j] = <<0>>
        /\ Cardinality(ExitedWorkers(j)) = 1

\* the producer of job j passes the stop check of its enqueue loop
EnqCheckPasses(j) == ppc[j] = "enq" /\ ppc'[j] = "put"
\* a ProbeURL is put on the queue of job j
UrlQueued(j) == Len(queue'[j]) > Len(queue[j]) /\ queue'[j][Len(queue'[j])] # 0

\* C19: once stop has been requested for a job the stop check of its enqueue
\* loop never passes again, so that at most the ProbeURL whose check had passed
\* before is still queued; and a ProbeURL is queued only behind a passed check,
\* never once the producer has left the loop for the sentinels.
C19_NoEnqueueAfterStop ==
    [][\A j \in Jobs :
          /\ cancelled[j] => ~EnqCheckPasses(j)
          /\ UrlQueued(j) => (ppc[j] = "put" /\ ppc'[j] = "enq")]_vars

\* C21: in every step the result list of a job stays as it is or gets one entry
\* at its end, the result of the worker that makes the step, for the URL that
\* worker probed; no entry already in the list is changed, moved or removed,
\* also not when save_report sorts the results for the report.
C21_ResultsAppendOnly ==
    [][\A j \in Jobs :
          \/ results'[j] = results[j]
          \/ /\ Len(results'[j]) = Len(results[j]) + 1
             /\ SubSeq(results'[j], 1, Len(results[j])) = results[j]
             /\ \E w \in Workers :
                   /\ wpc[j][w] = "app2" /\ wpc'[j][w] = "tdone"
                   /\ results'[j][Len(results'[j])].url = ProbedUrl(j, w)
                   /\ results'[j][Len(results'[j])].status = wresp[j][w].status]_vars

\* C21, its case: /b was recorded before /a with the same status, the report
\* lists /a first, and the result list still has /b first.
C21_Witness ==
    \E j \in Jobs :
        /\ Len(results[j]) = 2
        /\ results[j][1].url = Target \o <<"/", "b">>
        /\ results[j][2].url = Target \o <<"/", "a">>
        /\ results[j][1].status = results[j][2].status
        /\ report[j].state = "ok"
        /\ Len(report[j].entries) = 2
        /\ report[j].entries[1].url = Target \o <<"/", "a">>

\* the producer or a worker of job j evaluates the job's stop flag in this step
EvaluatesStopFlag(j) ==
    \/ ppc[j] = "enq" /\ added[j] < Len(urls[j]) /\ ppc'[j] # "enq"
    \/ ppc[j] = "after" /\ ppc'[j] # "after"
    \/ \E w \in Workers :
          \/ wpc[j][w] \in {"head", "got"} /\ wpc'[j][w] # wpc[j][w]
          \/ wpc[j][w] = "get" /\ wpc'[j][w] \in {"head", "exit"} /\ queue'[j] = queue[j]

\* C22: once stop has been requested for a job, every evaluation of the stop
\* flag by its producer or its workers finds it true, also after a later job's
\* state has been installed.
C22_CancellationStable ==
    [][\A j \in Jobs : (cancelled[j] /\ EvaluatesStopFlag(j)) => StopFlag]_vars

\* the completion handler of job j runs
CompletionOf(j) == ppc[j] = "fin" /\ ppc'[j] = "done"

\* C23: the running flag of the current job goes from true to false only when a
\* new submission stops the job or when the job's own scan() has returned, and the
\* completion handler of any other job leaves the running flag and the stored
\* results of the current job alone.
C23_RunningNotClobbered ==
    [][/\ (cs.running /\ ~cs'.running) =>
             \/ hpc = "idle" /\ hpc' = "sleep"
             \/ cs.job \in Jobs /\ CompletionOf(cs.job)
       /\ \A j \in Jobs :
             (CompletionOf(j) /\ cs.job # j) =>
                 (cs'.running = cs.running /\ cs'.results = cs.results)]_vars

====
